---- MODULE Spec2Model ----
(***************************************************************************)
(* MemoryStorageWithGas: a MemoryStorage decorated with gas accounting.    *)
(*                                                                         *)
(* Two builds of the crate are modelled, selected by `variant`:            *)
(*   "lib"   - src/src/lib.rs: storage is a plain MemoryStorage, the store *)
(*             is used through the owned decorator only, range is lazy;    *)
(*   "impls" - src/src/impls.rs: storage sits in a RefCell, the store is   *)
(*             usable through the owned decorator and through a shared     *)
(*             reference, range collects the matching records at the call. *)
(*                                                                         *)
(* Option<T> is a sequence of length 0 (None) or 1 (Some).                 *)
(***************************************************************************)
EXTENDS Integers, Sequences, FiniteSets, TLC

VARIABLES
    variant,          \* which build: "lib" or "impls"
    overflow_checks,  \* build profile: "on" = overflow panics, "off" = wraps;
                      \* "unobserved" until the first overflow shows which
    gas_config,       \* MemoryStorageWithGas.gas_config (immutable)
    storage,          \* MemoryStorageWithGas.storage: the inner ordered map
    gas_used,         \* contents of the RefCell<StorageGasUsed>
    gas_borrow,       \* borrow state of gas_used held by the caller
    iter,             \* the outstanding range sequence, if any
    result,           \* the most recent call: what was asked, what came back
    issued,           \* the table charges of the completed operations: their
                      \* sum since construction or the latest reset, and the
                      \* latest one (observation)
    plain             \* an undecorated MemoryStorage given the same completed
                      \* set/remove calls, and what its range yields
                      \* (observation)

vars == <<variant, overflow_checks, gas_config, storage, gas_used, gas_borrow,
          iter, result, issued, plain>>

(***************************************************************************)
(* Bounds of the model.                                                    *)
(***************************************************************************)
\* u64 is modelled as an unsigned word of WordBits bits.
WordBits == 16
\* At most MaxCharges charging operations are issued in one run.
MaxCharges == 3

Modulus == 2 ^ WordBits

None == <<>>
Some(x) == <<x>>

\* Byte-string keys and values the caller uses.
Keys == {<<1>>, <<1, 2>>}
Values == {<<7>>, <<8, 9>>}
\* Range bounds the caller passes: None or Some(key).
RangeBounds == {None, Some(<<1, 2>>)}
Orders == {"Ascending", "Descending"}

(***************************************************************************)
(* StorageGasConfig                                                        *)
(***************************************************************************)
\* Mutant of DefaultGasConfig: the flat read and write prices are exchanged.
DefaultGasConfigSwapped ==
    [has_cost |-> 1000, delete_cost |-> 1000, read_cost_flat |-> 2000,
     read_cost_per_byte |-> 3, write_cost_flat |-> 1000,
     write_cost_per_byte |-> 30, iter_next_cost_flat |-> 30]

\* impl Default for StorageGasConfig
DefaultGasConfig ==
    [has_cost |-> 1000, delete_cost |-> 1000, read_cost_flat |-> 1000,
     read_cost_per_byte |-> 3, write_cost_flat |-> 2000,
     write_cost_per_byte |-> 30, iter_next_cost_flat |-> 30]

\* A custom configuration (new_with_gas_config) with pairwise distinct prices.
CustomGasConfig ==
    [has_cost |-> 7, delete_cost |-> 11, read_cost_flat |-> 13,
     read_cost_per_byte |-> 2, write_cost_flat |-> 17,
     write_cost_per_byte |-> 5, iter_next_cost_flat |-> 3]

\* A custom configuration whose flat prices are half the word range.
HugeGasConfig ==
    [has_cost |-> Modulus \div 2, delete_cost |-> Modulus \div 2,
     read_cost_flat |-> Modulus \div 2, read_cost_per_byte |-> 3,
     write_cost_flat |-> Modulus \div 2, write_cost_per_byte |-> 30,
     iter_next_cost_flat |-> Modulus \div 2]

\* A custom configuration whose per-byte write price overflows one charge.
HugePerByteGasConfig ==
    [has_cost |-> 1000, delete_cost |-> 1000, read_cost_flat |-> 1000,
     read_cost_per_byte |-> 3, write_cost_flat |-> 2000,
     write_cost_per_byte |-> Modulus \div 2, iter_next_cost_flat |-> 30]

GasConfigs == {DefaultGasConfig, CustomGasConfig}
WideGasConfigs == GasConfigs \cup {HugeGasConfig, HugePerByteGasConfig}

\* StorageGasUsed::default()
DefaultGasUsed ==
    [total |-> 0, last |-> 0, read_cnt |-> 0, write_cnt |-> 0,
     delete_cnt |-> 0, iter_next_cnt |-> 0]

(***************************************************************************)
(* u64 arithmetic.  An operation yields [v |-> value, ovf |-> overflowed]; *)
(* v is the wrapped value, ovf tells whether the exact result left range.  *)
(***************************************************************************)
Checked(n) == [v |-> n % Modulus, ovf |-> n >= Modulus]
AddU64(a, b) == Checked(a + b)
MulU64(a, b) == Checked(a * b)

(***************************************************************************)
(* The inner MemoryStorage (cosmwasm_std): an ordered map from byte-string *)
(* keys to byte-string values, as the decorator uses it.                   *)
(***************************************************************************)
\* Byte-lexicographic order on keys (the order of the BTreeMap).
Min(a, b) == IF a <= b THEN a ELSE b
KeyLess(a, b) ==
    \/ \E i \in 1..Min(Len(a), Len(b)) :
          /\ \A j \in 1..(i - 1) : a[j] = b[j]
          /\ a[i] < b[i]
    \/ /\ Len(a) < Len(b)
       /\ \A j \in 1..Len(a) : a[j] = b[j]

StorageGet(data, key) ==
    IF key \in DOMAIN data THEN Some(data[key]) ELSE None

StorageSet(data, key, value) ==
    [x \in (DOMAIN data) \cup {key} |-> IF x = key THEN value ELSE data[x]]

StorageRemove(data, key) ==
    [x \in (DOMAIN data) \ {key} |-> data[x]]

\* The keys of data in [start, end), None meaning unbounded on that side.
RangeKeys(data, start, end) ==
    {k \in DOMAIN data :
        /\ (start = None \/ ~KeyLess(k, start[1]))
        /\ (end = None \/ KeyLess(k, end[1]))}

RECURSIVE Ascending(_, _)
Ascending(data, ks) ==
    IF ks = {} THEN <<>>
    ELSE LET k == CHOOSE x \in ks : \A y \in ks \ {x} : KeyLess(x, y)
         IN <<(<<k, data[k]>>)>> \o Ascending(data, ks \ {k})

Reverse(s) == [i \in 1..Len(s) |-> s[Len(s) + 1 - i]]

\* The records range(start, end, order) yields, in order.
StorageRange(data, start, end, order) ==
    LET asc == Ascending(data, RangeKeys(data, start, end))
    IN IF order = "Ascending" THEN asc ELSE Reverse(asc)

(***************************************************************************)
(* Gas of one operation, computed in u64 as the code computes it.          *)
(***************************************************************************)
OptLen(o) == IF o = None THEN 0 ELSE Len(o[1])

\* Mutant of ReadGas: the value's length is left out of the charge.
ReadGasKeyOnly(cfg, key, value) ==
    LET m == MulU64(Len(key), cfg.read_cost_per_byte)
        a == AddU64(cfg.read_cost_flat, m.v)
    IN [v |-> a.v, ovf |-> m.ovf \/ a.ovf]

\* read_cost_flat + (key.len() + value.unwrap_or(&Vec::new()).len()) as u64
\*     * read_cost_per_byte
ReadGas(cfg, key, value) ==
    LET m == MulU64(Len(key) + OptLen(value), cfg.read_cost_per_byte)
        a == AddU64(cfg.read_cost_flat, m.v)
    IN [v |-> a.v, ovf |-> m.ovf \/ a.ovf]

\* Mutant of IterNextGas: read_cost_flat is left out of the charge.
IterNextGasNoReadFlat(cfg, e) ==
    LET m == MulU64(Len(e[1]) + Len(e[2]), cfg.read_cost_per_byte)
        a == AddU64(cfg.iter_next_cost_flat, m.v)
    IN [v |-> a.v, ovf |-> m.ovf \/ a.ovf]

\* iter_next_cost_flat + read_cost_flat
\*     + (e.0.len() + e.1.len()) as u64 * read_cost_per_byte
IterNextGas(cfg, e) ==
    LET f == AddU64(cfg.iter_next_cost_flat, cfg.read_cost_flat)
        m == MulU64(Len(e[1]) + Len(e[2]), cfg.read_cost_per_byte)
        a == AddU64(f.v, m.v)
    IN [v |-> a.v, ovf |-> f.ovf \/ m.ovf \/ a.ovf]

\* Mutant of WriteGas: the value's length is left out of the charge.
WriteGasKeyOnly(cfg, key, value) ==
    LET m == MulU64(Len(key), cfg.write_cost_per_byte)
        a == AddU64(cfg.write_cost_flat, m.v)
    IN [v |-> a.v, ovf |-> m.ovf \/ a.ovf]

\* write_cost_flat + (key.len() + value.len()) as u64 * write_cost_per_byte
WriteGas(cfg, key, value) ==
    LET m == MulU64(Len(key) + Len(value), cfg.write_cost_per_byte)
        a == AddU64(cfg.write_cost_flat, m.v)
    IN [v |-> a.v, ovf |-> m.ovf \/ a.ovf]

\* Mutant of DeleteGas: the existence-check price is charged.
DeleteGasHasCost(cfg) == [v |-> cfg.has_cost, ovf |-> FALSE]

\* delete_cost
DeleteGas(cfg) == [v |-> cfg.delete_cost, ovf |-> FALSE]

(***************************************************************************)
(* The charging block of every operation:                                  *)
(*     gas.last = <charge>; gas.total += gas.last; gas.<cnt> += 1;         *)
(* c is the charge as computed ([v, ovf]), cnt the count field, checks the *)
(* build's overflow checking.  Yields the counter left behind and whether  *)
(* the block panicked.                                                     *)
(***************************************************************************)
\* Mutant of ApplyCharge: total is assigned the charge, not increased by it.
ApplyChargeOverwrite(gas, c, cnt, checks) ==
    IF checks /\ c.ovf THEN [gas_used |-> gas, panicked |-> TRUE]
    ELSE [gas_used |-> [gas EXCEPT !.last = c.v, !.total = c.v,
                                   ![cnt] = gas[cnt] + 1],
          panicked |-> FALSE]

ApplyCharge(gas, c, cnt, checks) ==
    LET withLast == [gas EXCEPT !.last = c.v]
        sum == AddU64(gas.total, c.v)
        done == [withLast EXCEPT !.total = sum.v, ![cnt] = gas[cnt] + 1]
    IN IF checks /\ c.ovf THEN [gas_used |-> gas, panicked |-> TRUE]
       ELSE IF checks /\ sum.ovf THEN [gas_used |-> withLast, panicked |-> TRUE]
       ELSE [gas_used |-> done, panicked |-> FALSE]

(***************************************************************************)
(* The decorator as a value: what a method reads of self.                  *)
(***************************************************************************)
SelfIn(profile) ==
    [storage |-> storage, gas_used |-> gas_used, gas_config |-> gas_config,
     gas_borrow |-> gas_borrow, iter |-> iter, checks |-> profile = "on"]

Self == SelfIn(overflow_checks)

\* No range sequence is outstanding.
NoIter ==
    [mode |-> "none", start |-> None, end |-> None, order |-> "Ascending",
     pulled |-> 0, items |-> <<>>, storage_ref |-> FALSE]

\* Mutant of CanBorrowMutGas: a shared view does not stop the mutable borrow.
CanBorrowMutGasUnlessMut(self) == self.gas_borrow # "mut"

\* self.gas_used.borrow_mut() succeeds iff no view of the cell is held.
CanBorrowMutGas(self) == self.gas_borrow = "none"
\* self.gas_used.borrow() succeeds iff no mutable view of the cell is held.
CanBorrowGas(self) == self.gas_borrow # "mut"
\* self.storage.borrow_mut() (impls.rs) succeeds iff no Ref of it is alive.
CanBorrowMutStorage(self) == ~self.iter.storage_ref

\* What a method leaves behind and returns.
Outcome(data, gas, out, panicked) ==
    [storage |-> data, gas_used |-> gas, out |-> out, panicked |-> panicked]

\* The charging block, or the panic of borrow_mut() that precedes it.
Charged(self, c, cnt) ==
    IF CanBorrowMutGas(self)
    THEN ApplyCharge(self.gas_used, c, cnt, self.checks)
    ELSE [gas_used |-> self.gas_used, panicked |-> TRUE]

(***************************************************************************)
(* src/src/lib.rs: impl Storage for MemoryStorageWithGas                   *)
(***************************************************************************)
\* Mutant of LibGet: a get that misses is charged but not counted.
LibGetCountsHits(self, key) ==
    LET value == StorageGet(self.storage, key)
        ch == Charged(self, ReadGas(self.gas_config, key, value), "read_cnt")
        gas == IF value = None
               THEN [ch.gas_used EXCEPT !.read_cnt = self.gas_used.read_cnt]
               ELSE ch.gas_used
    IN Outcome(self.storage, gas,
               IF ch.panicked THEN None ELSE value, ch.panicked)

LibGet(self, key) ==
    LET value == StorageGet(self.storage, key)
        ch == Charged(self, ReadGas(self.gas_config, key, value), "read_cnt")
    IN Outcome(self.storage, ch.gas_used,
               IF ch.panicked THEN None ELSE value, ch.panicked)

\* The sequence delegates to the inner map's range: nothing is read yet.
LibRange(self, start, end, order) ==
    [mode |-> "lazy", start |-> start, end |-> end, order |-> order,
     pulled |-> 0, items |-> <<>>, storage_ref |-> FALSE]

\* Mutant of LibSet: the call is charged and not forwarded to the inner map.
LibSetChargeOnly(self, key, value) ==
    LET ch == Charged(self, WriteGas(self.gas_config, key, value), "write_cnt")
    IN Outcome(self.storage, ch.gas_used, None, ch.panicked)

LibSet(self, key, value) ==
    LET ch == Charged(self, WriteGas(self.gas_config, key, value), "write_cnt")
    IN IF ch.panicked
       THEN Outcome(self.storage, ch.gas_used, None, TRUE)
       ELSE Outcome(StorageSet(self.storage, key, value), ch.gas_used,
                    None, FALSE)

LibRemove(self, key) ==
    LET ch == Charged(self, DeleteGas(self.gas_config), "delete_cnt")
    IN IF ch.panicked
       THEN Outcome(self.storage, ch.gas_used, None, TRUE)
       ELSE Outcome(StorageRemove(self.storage, key), ch.gas_used, None, FALSE)

(***************************************************************************)
(* src/src/impls.rs: impl Storage for MemoryStorageWithGas                 *)
(***************************************************************************)
ImplsGet(self, key) ==
    LET value == StorageGet(self.storage, key)
        ch == Charged(self, ReadGas(self.gas_config, key, value), "read_cnt")
    IN Outcome(self.storage, ch.gas_used,
               IF ch.panicked THEN None ELSE value, ch.panicked)

\* Mutant of ImplsRange: nothing is collected, the sequence reads the inner
\* map as it is pulled.
ImplsRangeUncollected(self, start, end, order) ==
    [mode |-> "lazy", start |-> start, end |-> end, order |-> order,
     pulled |-> 0, items |-> <<>>, storage_ref |-> FALSE]

\* Mutant of ImplsRange: the Ref of the inner store stays alive with the
\* sequence.
ImplsRangeKeepsRef(self, start, end, order) ==
    [mode |-> "eager", start |-> None, end |-> None, order |-> "Ascending",
     pulled |-> 0, items |-> StorageRange(self.storage, start, end, order),
     storage_ref |-> TRUE]

\* Mutant of ImplsRange: the records are collected in ascending order
\* whatever the order asked for.
ImplsRangeAscending(self, start, end, order) ==
    [mode |-> "eager", start |-> None, end |-> None, order |-> "Ascending",
     pulled |-> 0,
     items |-> StorageRange(self.storage, start, end, "Ascending"),
     storage_ref |-> FALSE]

\* The matching records are collected at the call: the sequence is the
\* vector's into_iter() and keeps neither the bounds nor the order.  The Ref
\* of the inner store is a temporary of the call, dropped when it returns.
ImplsRange(self, start, end, order) ==
    [mode |-> "eager", start |-> None, end |-> None, order |-> "Ascending",
     pulled |-> 0, items |-> StorageRange(self.storage, start, end, order),
     storage_ref |-> FALSE]

ImplsSet(self, key, value) ==
    LET ch == Charged(self, WriteGas(self.gas_config, key, value), "write_cnt")
    IN IF ch.panicked \/ ~CanBorrowMutStorage(self)
       THEN Outcome(self.storage, ch.gas_used, None, TRUE)
       ELSE Outcome(StorageSet(self.storage, key, value), ch.gas_used,
                    None, FALSE)

ImplsRemove(self, key) ==
    LET ch == Charged(self, DeleteGas(self.gas_config), "delete_cnt")
    IN IF ch.panicked \/ ~CanBorrowMutStorage(self)
       THEN Outcome(self.storage, ch.gas_used, None, TRUE)
       ELSE Outcome(StorageRemove(self.storage, key), ch.gas_used, None, FALSE)

(***************************************************************************)
(* src/src/impls.rs: impl Storage for &MemoryStorageWithGas                *)
(***************************************************************************)
SharedGet(self, key) == ImplsGet(self, key)

SharedRange(self, start, end, order) == ImplsRange(self, start, end, order)

\* Mutant of SharedSet: the call is forwarded to the inner map uncharged.
SharedSetUncharged(self, key, value) ==
    Outcome(StorageSet(self.storage, key, value), self.gas_used, None, FALSE)

SharedSet(self, key, value) ==
    LET ch == Charged(self, WriteGas(self.gas_config, key, value), "write_cnt")
    IN IF ch.panicked \/ ~CanBorrowMutStorage(self)
       THEN Outcome(self.storage, ch.gas_used, None, TRUE)
       ELSE Outcome(StorageSet(self.storage, key, value), ch.gas_used,
                    None, FALSE)

SharedRemove(self, key) ==
    LET ch == Charged(self, DeleteGas(self.gas_config), "delete_cnt")
    IN IF ch.panicked \/ ~CanBorrowMutStorage(self)
       THEN Outcome(self.storage, ch.gas_used, None, TRUE)
       ELSE Outcome(StorageRemove(self.storage, key), ch.gas_used, None, FALSE)

(***************************************************************************)
(* Pulling one item from a range sequence: the inner iterator's next() and *)
(* then the charging closure given to map().                               *)
(***************************************************************************)
\* The records the sequence has still to yield.
Remaining(self) ==
    IF self.iter.mode = "lazy"
    THEN LET all == StorageRange(self.storage, self.iter.start,
                                 self.iter.end, self.iter.order)
         IN SubSeq(all, self.iter.pulled + 1, Len(all))
    ELSE self.iter.items

\* The sequence after its inner iterator has yielded one record: the range
\* of the inner map has moved on, the collected vector has lost its head.
Advance(it) ==
    IF it.mode = "lazy" THEN [it EXCEPT !.pulled = it.pulled + 1]
    ELSE [it EXCEPT !.items = Tail(it.items)]

\* The closure of lib.rs range.
LibIterNext(self, e) ==
    LET ch == Charged(self, IterNextGas(self.gas_config, e), "iter_next_cnt")
    IN Outcome(self.storage, ch.gas_used,
               IF ch.panicked THEN None ELSE Some(e), ch.panicked)

\* The closure of impls.rs range.
ImplsIterNext(self, e) ==
    LET ch == Charged(self, IterNextGas(self.gas_config, e), "iter_next_cnt")
    IN Outcome(self.storage, ch.gas_used,
               IF ch.panicked THEN None ELSE Some(e), ch.panicked)

(***************************************************************************)
(* Dispatch on the build and the handle the caller holds.                  *)
(***************************************************************************)
Handles == IF variant = "lib" THEN {"owned"} ELSE {"owned", "shared"}

DoGet(h, self, key) ==
    IF variant = "lib" THEN LibGet(self, key)
    ELSE IF h = "owned" THEN ImplsGet(self, key) ELSE SharedGet(self, key)

DoSet(h, self, key, value) ==
    IF variant = "lib" THEN LibSet(self, key, value)
    ELSE IF h = "owned" THEN ImplsSet(self, key, value)
    ELSE SharedSet(self, key, value)

DoRemove(h, self, key) ==
    IF variant = "lib" THEN LibRemove(self, key)
    ELSE IF h = "owned" THEN ImplsRemove(self, key)
    ELSE SharedRemove(self, key)

DoRange(h, self, start, end, order) ==
    IF variant = "lib" THEN LibRange(self, start, end, order)
    ELSE IF h = "owned" THEN ImplsRange(self, start, end, order)
    ELSE SharedRange(self, start, end, order)

DoIterNext(self, e) ==
    IF variant = "lib" THEN LibIterNext(self, e) ELSE ImplsIterNext(self, e)

\* set and remove through the owned decorator take &mut self: the borrow
\* checker admits them only while no range sequence and no view of gas_used
\* borrows the decorator.  Through a shared reference they are always admitted.
MutAdmitted(h) ==
    h = "shared" \/ (iter.mode = "none" /\ gas_borrow = "none")

(***************************************************************************)
(* The charge table of the specification, in unbounded integers.  It feeds *)
(* the observation `issued` and the statements about the charges.          *)
(***************************************************************************)
TableGet(cfg, key, value) ==
    cfg.read_cost_flat + (Len(key) + OptLen(value)) * cfg.read_cost_per_byte
TableSet(cfg, key, value) ==
    cfg.write_cost_flat + (Len(key) + Len(value)) * cfg.write_cost_per_byte
TableRemove(cfg) == cfg.delete_cost
TableStep(cfg, e) ==
    cfg.iter_next_cost_flat + cfg.read_cost_flat
        + (Len(e[1]) + Len(e[2])) * cfg.read_cost_per_byte

(***************************************************************************)
(* State after construction.                                               *)
(***************************************************************************)
EmptyStorage == [x \in {} |-> <<>>]

Call(op, key, value, out, panicked) ==
    [op |-> op, key |-> key, value |-> value, out |-> out,
     panicked |-> panicked]

\* #[derive(Default)] on MemoryStorageWithGas, with gas_config replaced by cfg
\* (..Default::default()); ctor names the constructor that was called.
Construct(ctor, cfg) ==
    /\ gas_config = cfg
    /\ storage = EmptyStorage
    /\ gas_used = DefaultGasUsed
    /\ gas_borrow = "none"
    /\ iter = NoIter
    /\ result = Call(ctor, None, None, None, FALSE)
    /\ issued = [sum |-> 0, last |-> 0]
    /\ plain = [data |-> EmptyStorage, seq |-> <<>>]

\* MemoryStorageWithGas::new(): Self::default()
New == Construct("new", DefaultGasConfig)

\* MemoryStorageWithGas::new_with_gas_config(cfg)
NewWithGasConfig(cfg) == Construct("new_with_gas_config", cfg)

Init ==
    /\ variant \in {"lib", "impls"}
    /\ overflow_checks = "unobserved"
    /\ \/ New
       \/ \E cfg \in GasConfigs : NewWithGasConfig(cfg)

InitWide ==
    /\ variant \in {"lib", "impls"}
    /\ overflow_checks = "unobserved"
    /\ \/ New
       \/ \E cfg \in WideGasConfigs : NewWithGasConfig(cfg)

Build == <<variant, gas_config>>
Compiled == <<Build, overflow_checks>>

\* The build profile is fixed when the crate is compiled and shows only when
\* an operation overflows: until then either profile may be the build's.
Profiles ==
    IF overflow_checks = "unobserved" THEN {"on", "off"} ELSE {overflow_checks}

\* The profile known after an operation run under profile p, whose outcome
\* would be on under overflow checks and off without them.
Observed(p, on, off) == IF on # off THEN p ELSE overflow_checks

\* The observation after one more completed charge.
Issue(charge) == [sum |-> issued.sum + charge, last |-> charge]

Charges ==
    gas_used.read_cnt + gas_used.write_cnt + gas_used.delete_cnt
        + gas_used.iter_next_cnt

(***************************************************************************)
(* The operations.                                                         *)
(***************************************************************************)
Get(h, key) ==
    /\ Charges < MaxCharges
    /\ \E p \in Profiles :
       LET r == DoGet(h, SelfIn(p), key)
       IN /\ overflow_checks' = Observed(p, DoGet(h, SelfIn("on"), key),
                                          DoGet(h, SelfIn("off"), key))
          /\ storage' = r.storage
          /\ gas_used' = r.gas_used
          /\ result' = Call("get", Some(key), None, r.out, r.panicked)
          /\ issued' = IF r.panicked THEN issued
                       ELSE Issue(TableGet(gas_config, key, r.out))
    /\ UNCHANGED <<Build, gas_borrow, iter, plain>>

Set(h, key, value) ==
    /\ Charges < MaxCharges
    /\ MutAdmitted(h)
    /\ \E p \in Profiles :
       LET r == DoSet(h, SelfIn(p), key, value)
       IN /\ overflow_checks' =
                Observed(p, DoSet(h, SelfIn("on"), key, value),
                         DoSet(h, SelfIn("off"), key, value))
          /\ storage' = r.storage
          /\ gas_used' = r.gas_used
          /\ result' = Call("set", Some(key), Some(value), None, r.panicked)
          /\ issued' = IF r.panicked THEN issued
                       ELSE Issue(TableSet(gas_config, key, value))
          /\ plain' = IF r.panicked THEN plain
                      ELSE [plain EXCEPT
                               !.data = StorageSet(plain.data, key, value)]
    /\ UNCHANGED <<Build, gas_borrow, iter>>

Remove(h, key) ==
    /\ Charges < MaxCharges
    /\ MutAdmitted(h)
    /\ \E p \in Profiles :
       LET r == DoRemove(h, SelfIn(p), key)
       IN /\ overflow_checks' = Observed(p, DoRemove(h, SelfIn("on"), key),
                                          DoRemove(h, SelfIn("off"), key))
          /\ storage' = r.storage
          /\ gas_used' = r.gas_used
          /\ result' = Call("remove", Some(key), None, None, r.panicked)
          /\ issued' = IF r.panicked THEN issued
                       ELSE Issue(TableRemove(gas_config))
          /\ plain' = IF r.panicked THEN plain
                      ELSE [plain EXCEPT
                               !.data = StorageRemove(plain.data, key)]
    /\ UNCHANGED <<Build, gas_borrow, iter>>

\* range(start, end, order): the sequence is built, nothing is pulled.  A
\* sequence still outstanding is dropped by the caller.
Range(h, start, end, order) ==
    /\ iter' = DoRange(h, Self, start, end, order)
    /\ result' = Call("range", None, None, None, FALSE)
    /\ plain' = [plain EXCEPT
                    !.seq = StorageRange(plain.data, start, end, order)]
    /\ UNCHANGED <<Compiled, storage, gas_used, gas_borrow, issued>>

\* next() on the outstanding sequence.
IterNext ==
    /\ iter.mode # "none"
    /\ Charges < MaxCharges
    /\ LET rest == Remaining(Self)
       IN IF rest = <<>>
          THEN /\ result' = Call("next", None, None, None, FALSE)
               /\ UNCHANGED <<overflow_checks, storage, gas_used, iter,
                              issued, plain>>
          ELSE \E p \in Profiles :
               LET r == DoIterNext(SelfIn(p), Head(rest))
               IN /\ overflow_checks' =
                        Observed(p, DoIterNext(SelfIn("on"), Head(rest)),
                                 DoIterNext(SelfIn("off"), Head(rest)))
                  /\ storage' = r.storage
                  /\ gas_used' = r.gas_used
                  /\ iter' = Advance(iter)
                  /\ plain' = [plain EXCEPT
                                  !.seq = IF plain.seq = <<>> THEN <<>>
                                          ELSE Tail(plain.seq)]
                  /\ result' = Call("next", None, None, r.out,
                                    r.panicked)
                  /\ issued' = IF r.panicked THEN issued
                               ELSE Issue(TableStep(gas_config, Head(rest)))
    /\ UNCHANGED <<Build, gas_borrow>>

\* The caller abandons the outstanding sequence.
DropIter ==
    /\ iter.mode # "none"
    /\ iter' = NoIter
    /\ result' = Call("drop_iter", None, None, None, FALSE)
    /\ plain' = [plain EXCEPT !.seq = <<>>]
    /\ UNCHANGED <<Compiled, storage, gas_used, gas_borrow, issued>>

\* Mutant of ResetGasUsed: the whole counter is reset.
ResetGasUsedAll(gas) == DefaultGasUsed

\* reset_gas(): self.gas_used.borrow_mut().total = 0
ResetGasUsed(gas) == [gas EXCEPT !.total = 0]

ResetGas ==
    /\ IF CanBorrowMutGas(Self)
       THEN /\ gas_used' = ResetGasUsed(gas_used)
            /\ issued' = [issued EXCEPT !.sum = 0]
            /\ result' = Call("reset_gas", None, None, None, FALSE)
       ELSE /\ result' = Call("reset_gas", None, None, None, TRUE)
            /\ UNCHANGED <<gas_used, issued>>
    /\ UNCHANGED <<Compiled, storage, gas_borrow, iter, plain>>

\* Mutant of TotalGasUsed: reading the total also takes it (total is reset).
TotalGasUsedTakes ==
    /\ result' = Call("total_gas_used", None, None, Some(gas_used.total),
                      FALSE)
    /\ gas_used' = [gas_used EXCEPT !.total = 0]
    /\ UNCHANGED <<Compiled, storage, gas_borrow, iter, issued, plain>>

\* total_gas_used(): self.gas_used.borrow().total
TotalGasUsed ==
    /\ result' = IF CanBorrowGas(Self)
                 THEN Call("total_gas_used", None, None,
                           Some(gas_used.total), FALSE)
                 ELSE Call("total_gas_used", None, None, None, TRUE)
    /\ UNCHANGED <<Compiled, storage, gas_used, gas_borrow, iter, issued,
                   plain>>

\* last_gas_used(): self.gas_used.borrow().last
LastGasUsed ==
    /\ result' = IF CanBorrowGas(Self)
                 THEN Call("last_gas_used", None, None,
                           Some(gas_used.last), FALSE)
                 ELSE Call("last_gas_used", None, None, None, TRUE)
    /\ UNCHANGED <<Compiled, storage, gas_used, gas_borrow, iter, issued,
                   plain>>

\* log_gas(): println!("{:#?}", self.gas_used)
LogGas ==
    /\ result' = Call("log_gas", None, None, None, FALSE)
    /\ UNCHANGED <<Compiled, storage, gas_used, gas_borrow, iter, issued,
                   plain>>

\* The caller takes a view of the public cell: gas_used.borrow() or
\* gas_used.borrow_mut(), and keeps it.
BorrowGasUsed(kind) ==
    /\ gas_borrow = "none"
    /\ gas_borrow' = kind
    /\ result' = Call("borrow", None, None, None, FALSE)
    /\ UNCHANGED <<Compiled, storage, gas_used, iter, issued, plain>>

\* The caller drops the view.
DropGasBorrow ==
    /\ gas_borrow # "none"
    /\ gas_borrow' = "none"
    /\ result' = Call("drop_borrow", None, None, None, FALSE)
    /\ UNCHANGED <<Compiled, storage, gas_used, iter, issued, plain>>

\* The store operations and reset_gas.
NextStore ==
    \/ \E h \in Handles, key \in Keys : Get(h, key)
    \/ \E h \in Handles, key \in Keys, value \in Values : Set(h, key, value)
    \/ \E h \in Handles, key \in Keys : Remove(h, key)
    \/ \E h \in Handles, start \in RangeBounds, end \in RangeBounds,
          order \in Orders : Range(h, start, end, order)
    \/ IterNext
    \/ DropIter
    \/ ResetGas

\* The caller also uses the read-only utilities.
Next ==
    \/ NextStore
    \/ TotalGasUsed
    \/ LastGasUsed
    \/ LogGas

\* The caller instead takes and drops views of the public gas_used cell.
NextViews ==
    \/ NextStore
    \/ \E kind \in {"shared", "mut"} : BorrowGasUsed(kind)
    \/ DropGasBorrow

\* Store operations and reset_gas, no view of gas_used being held.
Spec == Init /\ [][NextStore]_vars

\* The same with the read-only utilities.
SpecUtils == Init /\ [][Next]_vars

\* Store operations while the caller holds views of gas_used.
SpecViews == Init /\ [][NextViews]_vars

\* Store operations on a decorator built with any of the wide cost models.
SpecWide == InitWide /\ [][NextStore]_vars

(***************************************************************************)
(* Properties.                                                             *)
(***************************************************************************)
\* The call that has just returned, and its arguments.
Completed(op) == result'.op = op /\ ~result'.panicked
ArgKey == result'.key[1]
ArgValue == result'.value[1]

C6_ResetFrame ==
    [][Completed("reset_gas") =>
        /\ gas_used'.total = 0
        /\ \A f \in {"last", "read_cnt", "write_cnt", "delete_cnt",
                     "iter_next_cnt"} : gas_used'[f] = gas_used[f]
        /\ gas_config' = gas_config
        /\ storage' = storage]_vars

\* C6 witness: reset_gas has zeroed a total while last, a count and the map
\* keep what the operations before it left.
C6_Witness ==
    /\ result.op = "reset_gas"
    /\ gas_used.total = 0
    /\ gas_used.last > 0
    /\ gas_used.write_cnt = 2
    /\ gas_used.read_cnt = 1
    /\ storage # EmptyStorage

\* C7: the decorator is transparent: the inner map is what an undecorated
\* map is after the same completed set/remove calls, every get returns what
\* that map returns, and every pull of a range sequence yields what that
\* map's range yields next (nothing once it is exhausted).
C7_Transparent ==
    [][/\ storage' = plain'.data
       /\ Completed("get") => result'.out = StorageGet(plain.data, ArgKey)
       /\ Completed("next") =>
            result'.out = IF plain.seq = <<>> THEN None
                          ELSE Some(Head(plain.seq))]_vars

\* C7 witness: with two entries stored, the first pull of a descending
\* sequence has yielded the greater key and one record is still to come.
C7_Witness ==
    /\ result.op = "next"
    /\ result.out # None
    /\ result.out[1][1] = <<1, 2>>
    /\ Len(plain.seq) = 1
    /\ storage = plain.data
    /\ Cardinality(DOMAIN storage) = 2

\* C8: in the impls.rs build every operation does through a shared reference
\* exactly what it does through the owned decorator: same returned value,
\* same inner map, same counter fields, from every reachable state and for
\* every argument.
C8_SharedEqualsOwned ==
    variant = "impls" =>
        /\ \A k \in Keys : SharedGet(Self, k) = ImplsGet(Self, k)
        /\ \A k \in Keys : SharedRemove(Self, k) = ImplsRemove(Self, k)
        /\ \A k \in Keys, v \in Values :
              SharedSet(Self, k, v) = ImplsSet(Self, k, v)
        /\ \A a \in RangeBounds, b \in RangeBounds, o \in Orders :
              SharedRange(Self, a, b, o) = ImplsRange(Self, a, b, o)

\* C8 witness: a set has completed while a range sequence was outstanding,
\* which only the shared reference admits.
C8_Witness ==
    /\ variant = "impls"
    /\ result.op = "set"
    /\ ~result.panicked
    /\ iter.mode = "eager"
    /\ gas_used.write_cnt = 2

\* C9: while the caller holds a view of gas_used, a get, a set, a remove, a
\* pull of a record from a range sequence and a reset_gas panic, and leave
\* the counter fields and the inner map as they were.
C9_ConflictFailsFast ==
    [][(/\ gas_borrow # "none"
        /\ \/ result'.op \in {"get", "set", "remove", "reset_gas"}
           \/ result'.op = "next" /\ Remaining(Self) # <<>>)
       => /\ result'.panicked
          /\ gas_used' = gas_used
          /\ storage' = storage]_vars

\* C9 witness: a set through the shared reference has panicked under a held
\* shared view, after an earlier set had been charged.
C9_Witness ==
    /\ gas_borrow = "shared"
    /\ result.op = "set"
    /\ result.panicked
    /\ gas_used.write_cnt = 1
    /\ gas_used.total = issued.sum

\* C10: no charge is partially applied: a get, set, remove or pull either
\* leaves the inner map and every counter field as they were, or returns
\* with last set to its charge, total advanced by that charge (in the
\* word's arithmetic), its own count one higher, and the inner map mutated
\* as the operation asks.
CountOf(op) ==
    CASE op = "get" -> "read_cnt"
      [] op = "set" -> "write_cnt"
      [] op = "remove" -> "delete_cnt"
      [] OTHER -> "iter_next_cnt"

C10_NoPartialCharge ==
    [][result'.op \in {"get", "set", "remove", "next"} =>
        \/ /\ gas_used' = gas_used
           /\ storage' = storage
        \/ /\ ~result'.panicked
           /\ gas_used' =
                [gas_used EXCEPT
                    !.last = gas_used'.last,
                    !.total = (gas_used.total + gas_used'.last) % Modulus,
                    ![CountOf(result'.op)] = @ + 1]
           /\ storage' =
                CASE result'.op = "set" ->
                         StorageSet(storage, ArgKey, ArgValue)
                  [] result'.op = "remove" -> StorageRemove(storage, ArgKey)
                  [] OTHER -> storage]_vars

\* C11: each count changes only under its own operation and by exactly 1: a
\* get that returns adds 1 to read_cnt, a set to write_cnt, a remove to
\* delete_cnt, a pull that yields a record to iter_next_cnt, and each leaves
\* the other three counts as they were; no other step (range, an exhausted
\* pull, abandoning a sequence, reset_gas, an aborted call) changes a count.
\* This holds whatever the key and value lengths, on hit and on miss, and
\* for every cost model, the ones whose charges overflow included.
CountFields == {"read_cnt", "write_cnt", "delete_cnt", "iter_next_cnt"}

Counted ==
    \/ Completed("get") \/ Completed("set") \/ Completed("remove")
    \/ Completed("next") /\ result'.out # None

C11_CountsByOne ==
    [][\A f \in CountFields :
          gas_used'[f] = IF Counted /\ f = CountOf(result'.op)
                         THEN gas_used[f] + 1
                         ELSE gas_used[f]]_vars

\* C11 witness: under the cost model with huge flat prices, a get that hit
\* and a get that missed (the later one wrapping total) have each been
\* counted once, after one set.
C11_Witness ==
    /\ gas_config = HugeGasConfig
    /\ result.op = "get"
    /\ result.out = None
    /\ ~result.panicked
    /\ gas_used.read_cnt = 2
    /\ gas_used.write_cnt = 1
    /\ gas_used.delete_cnt = 0
    /\ gas_used.iter_next_cnt = 0

\* C12: total never decreases across an operation other than reset_gas, and
\* no count ever decreases, for every cost model and with the charge
\* arithmetic in the word's width.
C12_Monotone ==
    [][/\ result'.op # "reset_gas" => gas_used'.total >= gas_used.total
       /\ \A f \in CountFields : gas_used'[f] >= gas_used[f]]_vars

\* C13: a freshly constructed decorator, built by new() or by
\* new_with_gas_config, has total, last and the four counts at 0 and an
\* empty inner map; the cost model of new() is has_cost 1000, delete_cost
\* 1000, read_cost_flat 1000, read_cost_per_byte 3, write_cost_flat 2000,
\* write_cost_per_byte 30, iter_next_cost_flat 30.
Fresh == result.op \in {"new", "new_with_gas_config"}

C13_FreshIsZero ==
    /\ Fresh =>
          /\ gas_used.total = 0
          /\ gas_used.last = 0
          /\ \A f \in CountFields : gas_used[f] = 0
          /\ DOMAIN storage = {}
          /\ \A k \in Keys : StorageGet(storage, k) = None
    /\ result.op = "new" =>
          /\ gas_config.has_cost = 1000
          /\ gas_config.delete_cost = 1000
          /\ gas_config.read_cost_flat = 1000
          /\ gas_config.read_cost_per_byte = 3
          /\ gas_config.write_cost_flat = 2000
          /\ gas_config.write_cost_per_byte = 30
          /\ gas_config.iter_next_cost_flat = 30

\* C13 witness: a decorator just built by new_with_gas_config with a cost
\* model other than the default one.
C13_Witness ==
    /\ result.op = "new_with_gas_config"
    /\ gas_config = CustomGasConfig
    /\ gas_used = DefaultGasUsed
    /\ storage = EmptyStorage

\* C14: the read-only utilities do not mutate state: log_gas, total_gas_used
\* and last_gas_used, called in any reachable state and any number of times,
\* leave total, last, the four counts, the cost model and the inner map as
\* they were, and total_gas_used / last_gas_used return the current total /
\* last.
C14_UtilitiesReadOnly ==
    [][result'.op \in {"log_gas", "total_gas_used", "last_gas_used"} =>
        /\ gas_used' = gas_used
        /\ gas_config' = gas_config
        /\ storage' = storage
        /\ Completed("total_gas_used") => result'.out = Some(gas_used.total)
        /\ Completed("last_gas_used") => result'.out = Some(gas_used.last)
      ]_vars

\* C14 witness: total_gas_used has returned a total made of two charges,
\* which differs from last, and the counter still holds both.
C14_Witness ==
    /\ result.op = "total_gas_used"
    /\ result.out = Some(gas_used.total)
    /\ gas_used.write_cnt = 1
    /\ gas_used.read_cnt = 1
    /\ gas_used.total > gas_used.last
    /\ gas_used.last > 0

\* C15: the range of impls.rs, which collects the matching records at the
\* call, and the range of lib.rs, which delegates to the inner map's range,
\* are equivalent when no write comes between the pulls: from every
\* reachable map and counter, for every bounds and order and every k, k
\* pulls yield the same records in the same order and leave the same
\* counter; and the range call itself charges nothing in either build.
MaxPulls == 3

\* k consecutive pulls on the sequence self.iter, with the closure of the
\* build: what they yield and the counter they leave.
RECURSIVE Pulled(_, _, _)
Pulled(build, self, k) ==
    IF k = 0 THEN [yielded |-> <<>>, gas_used |-> self.gas_used]
    ELSE LET rest == Remaining(self)
         IN IF rest = <<>>
            THEN LET after == Pulled(build, self, k - 1)
                 IN [after EXCEPT !.yielded = <<None>> \o @]
            ELSE LET r == IF build = "lib" THEN LibIterNext(self, Head(rest))
                          ELSE ImplsIterNext(self, Head(rest))
                     after == Pulled(build,
                                     [self EXCEPT !.gas_used = r.gas_used,
                                                  !.iter = Advance(self.iter)],
                                     k - 1)
                 IN [after EXCEPT !.yielded = <<r.out>> \o @]

LazyPulled(start, end, order, k) ==
    Pulled("lib", [Self EXCEPT !.iter = LibRange(Self, start, end, order)], k)

EagerPulled(start, end, order, k) ==
    Pulled("impls",
           [Self EXCEPT !.iter = ImplsRange(Self, start, end, order)], k)

C15_EagerEqualsLazy ==
    /\ [](\A start \in RangeBounds, end \in RangeBounds, order \in Orders,
             k \in 0..MaxPulls :
             EagerPulled(start, end, order, k)
                 = LazyPulled(start, end, order, k))
    /\ [][result'.op = "range" => gas_used' = gas_used]_vars

\* C15 witness: in the impls.rs build, with two entries stored, the first
\* record of a descending sequence has been pulled, and two pulls of either
\* range from here yield both records, the greater key first.
C15_Witness ==
    /\ variant = "impls"
    /\ result.op = "next"
    /\ gas_used.iter_next_cnt = 1
    /\ Cardinality(DOMAIN storage) = 2
    /\ Len(iter.items) = 1
    /\ iter.items[1][1] = <<1>>
    /\ LET two == EagerPulled(None, None, "Descending", 2)
       IN /\ two.yielded[1] # None
          /\ two.yielded[1][1][1] = <<1, 2>>
          /\ two.yielded[2] # None
          /\ two.gas_used.iter_next_cnt = 3

\* C16: snapshot semantics through the shared reference (impls.rs): when set
\* or remove is issued after a range call and before its sequence is
\* consumed, each pull still yields the next record of those that matched
\* at the range call (a record removed since is still yielded, one added or
\* overwritten since is not reflected, and nothing is yielded once those
\* records are used up), and the pull is charged on the lengths of the
\* snapshot record's key and value.
C16_SnapshotThroughShared ==
    [][(variant = "impls" /\ Completed("next")) =>
        IF plain.seq = <<>>
        THEN result'.out = None /\ gas_used' = gas_used
        ELSE /\ result'.out = Some(Head(plain.seq))
             /\ gas_used'.last = TableStep(gas_config, Head(plain.seq))
             /\ gas_used'.total = gas_used.total + gas_used'.last]_vars

\* C16 witness: a pull has yielded a record whose key was removed, through
\* the shared reference, after the range call, and was charged for it.
C16_Witness ==
    /\ variant = "impls"
    /\ result.op = "next"
    /\ result.out # None
    /\ result.out[1][1] \notin DOMAIN storage
    /\ gas_used.write_cnt = 1
    /\ gas_used.delete_cnt = 1
    /\ gas_used.iter_next_cnt = 1
    /\ gas_used.last = TableStep(gas_config, result.out[1])

\* C17: no borrow conflict on the inner store (impls.rs): the borrow of the
\* inner store taken by get, range, set or remove ends with the call, so in
\* every interleaving of operations through the shared reference, also with
\* an unconsumed range sequence outstanding, storage.borrow_mut() in set
\* and remove succeeds: such a call returns, and no set or remove has
\* applied its charge and then aborted at the inner store.
C17_NoStorageBorrowConflict ==
    /\ [](variant = "impls" => CanBorrowMutStorage(Self))
    /\ [][(variant = "impls" /\ result'.op \in {"set", "remove"}) =>
            /\ ~result'.panicked
            /\ gas_used'[CountOf(result'.op)]
                  = gas_used[CountOf(result'.op)] + 1
            /\ storage' = IF result'.op = "set"
                          THEN StorageSet(storage, ArgKey, ArgValue)
                          ELSE StorageRemove(storage, ArgKey)]_vars

\* C17 witness: a remove through the shared reference has returned and
\* changed the inner map while a sequence with a record still to yield was
\* outstanding.
C17_Witness ==
    /\ variant = "impls"
    /\ result.op = "remove"
    /\ ~result.panicked
    /\ iter.mode = "eager"
    /\ iter.items # <<>>
    /\ iter.items[1][1] \notin DOMAIN storage
    /\ gas_used.delete_cnt = 1

\* C18: in every reachable state in which a get, set, remove or yielding
\* pull has completed since construction or since the latest reset_gas,
\* last <= total; last exceeds total only after a reset_gas with no charge
\* completed since, and then total = 0.
\* Every price of the cost models drawn is positive, so the table charges
\* issued since the latest reset sum to more than 0 exactly when one has
\* completed.
ChargedSinceReset == issued.sum > 0

C18_LastWithinTotal ==
    /\ ChargedSinceReset => gas_used.last <= gas_used.total
    /\ gas_used.last > gas_used.total =>
          ~ChargedSinceReset /\ gas_used.total = 0

====
